---------------------------- MODULE Spec2Model ----------------------------
(***************************************************************************)
(* A model of src/news.js: the news publication pipeline (handleAddNews),  *)
(* the dual-backend content store (getNews, saveNews, deleteNews), the     *)
(* bulk clear (handleClearAllNews) and the credential lookup               *)
(* (getSupabaseCredentials).                                               *)
(*                                                                         *)
(* Text the code trims or matches against a pattern (title, content, link, *)
(* PIN, ids) is a sequence of one-character strings; text the code only    *)
(* tests for emptiness or copies (urls, keys, roles, authors) is a string. *)
(* The DOM list container written by renderNewsAdmin/renderNewsPublic and  *)
(* the button's caption are presentation and are not part of the state.    *)
(***************************************************************************)
EXTENDS Integers, Sequences, FiniteSets

VARIABLES
    config,      \* window.SB_URL/SB_KEY, window.SUPABASE_PUBLIC_CONFIG, localStorage 'supabaseSyncSettings'
    localData,   \* localStorage 'mh_news_data'
    remote,      \* the rows of the remote 'news' table, in insertion order
    nextId,      \* the remote table's id sequence
    now,         \* the wall clock: each new Date() reads a later time than the one before
    form,        \* the values of the form's inputs
    btnDisabled, \* btn-add-news .disabled
    proc,        \* the locals of the suspended invocations of handleAddNews
    clicks,      \* how many times the publish button has been clicked
    last         \* what the last handler step returned, alerted or threw

vars == <<config, localData, remote, nextId, now, form, btnDisabled, proc, clicks, last>>

-----------------------------------------------------------------------------
(* Bounds *)

\* The number of clicks on the publish button in one behaviour
MaxClicks == 2

\* The invocations of handleAddNews that can be suspended at the same time
Procs == {1, 2}

-----------------------------------------------------------------------------
(* JavaScript values *)

\* undefined, as the value of a url or key that a configuration source lacks
Undefined == "undefined"

\* JavaScript truthiness of a string-or-undefined value
Truthy(v) == v /= Undefined /\ v /= ""

\* An item's id: absent, a number, or text
NoId == [t |-> "undef"]
NumId(n) == [t |-> "num", n |-> n]
StrId(s) == [t |-> "str", s |-> s]

Digit(d) ==
    CASE d = 0 -> "0" [] d = 1 -> "1" [] d = 2 -> "2" [] d = 3 -> "3"
      [] d = 4 -> "4" [] d = 5 -> "5" [] d = 6 -> "6" [] d = 7 -> "7"
      [] d = 8 -> "8" [] OTHER -> "9"

RECURSIVE Decimal(_)
Decimal(n) == IF n < 10 THEN <<Digit(n)>> ELSE Append(Decimal(n \div 10), Digit(n % 10))

\* id.toString(): [ok |-> TRUE, s |-> text], or a TypeError when the id is undefined
toString(id) ==
    CASE id.t = "num" -> [ok |-> TRUE, s |-> Decimal(id.n)]
      [] id.t = "str" -> [ok |-> TRUE, s |-> id.s]
      [] OTHER -> [ok |-> FALSE]

\* `${id}` in a template literal: never throws
Interpolate(id) ==
    CASE id.t = "num" -> Decimal(id.n)
      [] id.t = "str" -> id.s
      [] OTHER -> <<"u","n","d","e","f","i","n","e","d">>

IsSpace(c) == c = " "

\* String.prototype.trim
RECURSIVE TrimLeft(_)
TrimLeft(s) == IF s /= <<>> /\ IsSpace(Head(s)) THEN TrimLeft(Tail(s)) ELSE s

RECURSIVE TrimRight(_)
TrimRight(s) ==
    IF s /= <<>> /\ IsSpace(s[Len(s)]) THEN TrimRight(SubSeq(s, 1, Len(s) - 1)) ELSE s

trim(s) == TrimRight(TrimLeft(s))

LowerChar(c) ==
    CASE c = "H" -> "h" [] c = "T" -> "t" [] c = "P" -> "p" [] c = "S" -> "s"
      [] OTHER -> c

StartsWithCI(s, prefix) ==
    /\ Len(s) >= Len(prefix)
    /\ \A i \in 1..Len(prefix) : LowerChar(s[i]) = prefix[i]

\* /^https?:\/\//i.test(url)
HasScheme(url) ==
    \/ StartsWithCI(url, <<"h","t","t","p",":","/","/">>)
    \/ StartsWithCI(url, <<"h","t","t","p","s",":","/","/">>)

\* handleAddNews: the auto-fix of the link
NormalizeLink(link_url) ==
    IF link_url /= <<>> /\ ~HasScheme(link_url)
    THEN <<"h","t","t","p","s",":","/","/">> \o link_url
    ELSE link_url

-----------------------------------------------------------------------------
(* Credentials *)

\* window.SUPABASE_PUBLIC_CONFIG when the page defines none
NoPublicConfig == [present |-> FALSE, URL |-> Undefined, ANON_KEY |-> Undefined]

\* localStorage.getItem('supabaseSyncSettings') when nothing is stored
NoSettings == [kind |-> "null", url |-> Undefined, key |-> Undefined]

getSupabaseCredentials(cfg) ==
    IF ~Truthy(cfg.SB_URL) \/ ~Truthy(cfg.SB_KEY)
    THEN IF cfg.PUBLIC_CONFIG.present
         THEN [url |-> cfg.PUBLIC_CONFIG.URL, key |-> cfg.PUBLIC_CONFIG.ANON_KEY]
         ELSE IF cfg.settings.kind = "json"
              THEN [url |-> cfg.settings.url, key |-> cfg.settings.key]
              ELSE [url |-> cfg.SB_URL, key |-> cfg.SB_KEY]
    ELSE [url |-> cfg.SB_URL, key |-> cfg.SB_KEY]

\* The negation of the guard (!url || !key) that every store operation starts with
HasCredentials(cfg) ==
    LET c == getSupabaseCredentials(cfg) IN Truthy(c.url) /\ Truthy(c.key)

-----------------------------------------------------------------------------
(* The content store *)

\* localStorage 'mh_news_data': nothing stored, the JSON text of a sequence
\* of items, or text that JSON.parse rejects
NoData == [kind |-> "null"]
Json(items) == [kind |-> "json", items |-> items]
Malformed == [kind |-> "malformed"]

\* What a call settles with
Threw == [st |-> "threw"]
Items(items) == [st |-> "items", items |-> items]

\* stored ? JSON.parse(stored) : []   and   JSON.parse(stored || '[]')
ParseStored(slot) ==
    CASE slot.kind = "null" -> Items(<<>>)
      [] slot.kind = "json" -> Items(slot.items)
      [] OTHER -> Threw

\* The row -> item mapping of getNews
RowToItem(row) ==
    [id |-> NumId(row.id), title |-> row.title, content |-> row.content,
     author |-> row.author, date |-> row.news_date, image_url |-> row.image_url,
     video_url |-> row.video_url, link_url |-> row.link_url,
     publisher_role |-> row.publisher_role]

\* The payload of saveNews, stored by the server under a fresh id
ItemToRow(newsItem, id) ==
    [id |-> id, title |-> newsItem.title, content |-> newsItem.content,
     author |-> newsItem.author, news_date |-> newsItem.date,
     image_url |-> newsItem.image_url, video_url |-> newsItem.video_url,
     link_url |-> newsItem.link_url, publisher_role |-> newsItem.publisher_role]

\* The server's answer to ?order=news_date.desc: equal dates keep insertion order
RECURSIVE InsertDesc(_, _)
InsertDesc(row, sorted) ==
    IF sorted = <<>> THEN <<row>>
    ELSE IF row.news_date > Head(sorted).news_date THEN <<row>> \o sorted
    ELSE <<Head(sorted)>> \o InsertDesc(row, Tail(sorted))

RECURSIVE OrderByDateDesc(_)
OrderByDateDesc(rows) ==
    IF rows = <<>> THEN <<>>
    ELSE InsertDesc(rows[Len(rows)], OrderByDateDesc(SubSeq(rows, 1, Len(rows) - 1)))

MapRows(rows) == [i \in 1..Len(rows) |-> RowToItem(rows[i])]

\* getNews, lines 33-38: no credentials
getNewsLocal(slot) == ParseStored(slot)

\* A slip that rethrows instead of reading the slot
getNewsFallback_Rethrows(slot) == Threw

\* getNews, lines 66-70: the catch branch
getNewsFallback(slot) == ParseStored(slot)

\* getNews, lines 40-65, given whether the request came back ok
getNewsRemote(rows, slot, responseOk) ==
    IF responseOk THEN Items(MapRows(OrderByDateDesc(rows))) ELSE getNewsFallback(slot)

getNews(cfg, slot, rows, responseOk) ==
    IF ~HasCredentials(cfg) THEN getNewsLocal(slot) ELSE getNewsRemote(rows, slot, responseOk)

\* A slip that pushes the item twice
saveNewsLocal_PushesTwice(slot, newsItem) ==
    LET current == ParseStored(slot)
    IN  IF current.st = "threw" THEN Threw
        ELSE Items(Append(Append(current.items, newsItem), newsItem))

\* saveNews, lines 76-81: the new content of the slot, or the exception of JSON.parse
saveNewsLocal(slot, newsItem) ==
    LET current == ParseStored(slot)
    IN  IF current.st = "threw" THEN Threw ELSE Items(Append(current.items, newsItem))

\* deleteNews, lines 126-127: the filtered sequence, or the exception of
\* JSON.parse or of item.id.toString()
deleteNewsLocal(slot, id) ==
    LET current == ParseStored(slot)
    IN  IF current.st = "threw" THEN Threw
        ELSE IF current.items /= <<>> /\ ~toString(id).ok THEN Threw
        ELSE IF \E i \in 1..Len(current.items) : ~toString(current.items[i].id).ok THEN Threw
        ELSE LET Keep(item) == toString(item.id).s /= toString(id).s
             IN  Items(SelectSeq(current.items, Keep))

\* The server's answer to DELETE ?id=eq.<id>: the rows whose id is written otherwise
deleteRowsEq(rows, id) ==
    LET Keep(row) == Decimal(row.id) /= Interpolate(id) IN SelectSeq(rows, Keep)

\* The server's answer to DELETE ?id=neq.0
deleteRowsNeq0(rows) ==
    LET Keep(row) == row.id = 0 IN SelectSeq(rows, Keep)

-----------------------------------------------------------------------------
(* Authentication *)

\* window.hashPassword: a deterministic digest without collisions
hashPassword(pin) == [digest |-> pin]

AdminPin == <<"1","2">>
UserPin == <<"3","4">>

ADMIN_PASSWORD_HASH == hashPassword(AdminPin)
USER_PASSWORD_HASH == hashPassword(UserPin)

\* A slip that takes every digest but the admin's for the user's
RoleOf_ElseUser(hashedPin) ==
    IF hashedPin = ADMIN_PASSWORD_HASH THEN "admin" ELSE "user"

\* handleAddNews, lines 396-410: the role of a digest, "" when it has none
RoleOf(hashedPin) ==
    IF hashedPin = ADMIN_PASSWORD_HASH THEN "admin"
    ELSE IF hashedPin = USER_PASSWORD_HASH THEN "user"
    ELSE ""

\* A slip that signs every item as the admin
AuthorOf_AlwaysAdmin(role) == "Admin"

\* handleAddNews, lines 403 and 406
AuthorOf(role) == IF role = "admin" THEN "Admin" ELSE "User"

\* A slip that lets either role clear
MayClearAll_AnyRole(hashedPin) ==
    hashedPin = ADMIN_PASSWORD_HASH \/ hashedPin = USER_PASSWORD_HASH

\* handleClearAllNews, line 500
MayClearAll(hashedPin) == hashedPin = ADMIN_PASSWORD_HASH

-----------------------------------------------------------------------------
(* Quota *)

\* handleAddNews, line 417
USER_LIMIT == 5

\* handleAddNews, line 416
UserPosts(existingNews) ==
    LET IsUser(n) == n.publisher_role = "user" IN Len(SelectSeq(existingNews, IsUser))

\* handleAddNews, line 417
LimitReached(userPosts) == userPosts >= USER_LIMIT

-----------------------------------------------------------------------------
(* Inputs *)

Hi == <<"H","i">>
World == <<"W","o","r","l","d">>
PaddedAdminPin == <<" ","1","2"," ">>
WrongPin == <<"9">>

ImageFile == "photo.png"
VideoFile == "clip.mp4"

EmptyForm ==
    [title |-> <<>>, content |-> <<>>, link |-> <<>>, pin |-> <<>>, image |-> "", video |-> ""]

Draft(title, content, link, pin, image, video) ==
    [title |-> title, content |-> content, link |-> link, pin |-> pin,
     image |-> image, video |-> video]

\* What the user may have typed into the form when the button is clicked
Submissions ==
    { Draft(Hi, <<" ">>, <<>>, WrongPin, "", ""),
      Draft(Hi, World, <<>>, <<" ">>, "", ""),
      Draft(Hi, World, <<>>, WrongPin, ImageFile, ""),
      Draft(Hi, World, <<"e","x","a","m","p","l","e",".","c","o","m">>, AdminPin, "", ""),
      Draft(<<" ","H","i"," ">>, World, <<"H","T","T","P",":","/","/","e",".","c","o">>,
            PaddedAdminPin, ImageFile, VideoFile),
      Draft(Hi, World, <<>>, UserPin, "", "") }

\* The ids deleteNews may be called with: the text the card of an item without
\* id carries, and a number
DeleteIds == { StrId(Interpolate(NoId)), NumId(1) }

\* What the user may answer to the prompt of handleClearAllNews
ClearPins == { <<>>, AdminPin, UserPin, PaddedAdminPin }

\* A stored item as a user-role publish of Hi/World at time d leaves it
UserItem(d) ==
    [id |-> NoId, title |-> Hi, content |-> World, author |-> "User", date |-> d,
     image_url |-> "", video_url |-> "", link_url |-> <<>>, publisher_role |-> "user"]

AdminItem(d) ==
    [id |-> NoId, title |-> Hi, content |-> World, author |-> "Admin", date |-> d,
     image_url |-> "", video_url |-> "", link_url |-> <<>>, publisher_role |-> "admin"]

UserItems(n) == [d \in 1..n |-> UserItem(d)]

-----------------------------------------------------------------------------
(* Initial states *)

NoCredentials ==
    [SB_URL |-> Undefined, SB_KEY |-> Undefined, PUBLIC_CONFIG |-> NoPublicConfig,
     settings |-> NoSettings]

InjectedCredentials ==
    [SB_URL |-> "https://sb.example/", SB_KEY |-> "anon-key",
     PUBLIC_CONFIG |-> NoPublicConfig, settings |-> NoSettings]

RowsOf(items) == [i \in 1..Len(items) |-> ItemToRow(items[i], i)]

\* The stores as earlier sessions can have left them: what the page starts from
Presets ==
    { [config |-> NoCredentials, localData |-> NoData, remote |-> <<>>],
      [config |-> NoCredentials, localData |-> Json(UserItems(4)), remote |-> <<>>],
      [config |-> InjectedCredentials, localData |-> NoData, remote |-> <<>>],
      [config |-> InjectedCredentials, localData |-> Json(<<AdminItem(1), UserItem(2)>>),
       remote |-> RowsOf(UserItems(4))] }

\* No call is being awaited / the awaited call has not settled yet
NoCall == [st |-> "none"]
Pending == [st |-> "pending"]
Null == [st |-> "null"]
Bool(b) == [st |-> "bool", b |-> b]

\* The items the store in effect holds: the table with credentials, the slot without
InEffect ==
    IF HasCredentials(config) THEN MapRows(remote)
    ELSE IF localData.kind = "json" THEN localData.items ELSE <<>>

\* newItem before line 449
NoItem == [id |-> NoId]

Idle ==
    [pc |-> "idle", sub |-> EmptyForm, title |-> <<>>, content |-> <<>>,
     link_url |-> <<>>, pin |-> <<>>, role |-> "", authorName |-> "",
     image_url |-> "", video_url |-> "", item |-> NoItem, res |-> NoCall,
     userPosts |-> 0, saves |-> 0, uploads |-> 0, full |-> FALSE,
     imgFile |-> "", vidFile |-> ""]

\* The page as loaded over the stores s
Start(s) ==
    /\ config = s.config
    /\ localData = s.localData
    /\ remote = s.remote
    /\ nextId = Len(s.remote) + 1
    /\ now = 5
    /\ form = EmptyForm
    /\ btnDisabled = FALSE
    /\ proc = [p \in Procs |-> Idle]
    /\ clicks = 0
    /\ last = [op |-> "load"]

Init == \E s \in Presets : Start(s)

\* The stores when the text in the local slot is not JSON (the slot is
\* plain localStorage: anything on the origin can write it)
MalformedPresets ==
    { [config |-> NoCredentials, localData |-> Malformed, remote |-> <<>>],
      [config |-> InjectedCredentials, localData |-> Malformed,
       remote |-> RowsOf(UserItems(4))] }

InitMalformed == \E s \in MalformedPresets : Start(s)

-----------------------------------------------------------------------------
(* handleAddNews *)

\* The invocation is suspended at an await
Step(p) == [op |-> "handleAddNews", p |-> p, outcome |-> ""]

\* What an invocation that returned was given, did and said
Returned(p, r, outcome, alert) ==
    [op |-> "handleAddNews", p |-> p, outcome |-> outcome, alert |-> alert,
     sub |-> r.sub, item |-> r.item, userPosts |-> r.userPosts,
     saves |-> r.saves, uploads |-> r.uploads]

Suspend(p, r) ==
    /\ proc' = [proc EXCEPT ![p] = r]
    /\ last' = Step(p)

\* The handler returns; its locals are gone
Return(p, r, outcome, alert) ==
    /\ proc' = [proc EXCEPT ![p] = Idle]
    /\ last' = Returned(p, r, outcome, alert)

\* An awaited call rejected outside any try: the handler ends there
Throw(p, r) ==
    /\ proc' = [proc EXCEPT ![p] = Idle]
    /\ last' = Returned(p, r, "Threw", "")

\* lines 449-458
newItem(r, date) ==
    [id |-> NoId, title |-> r.title, content |-> r.content, author |-> r.authorName,
     date |-> date, image_url |-> r.image_url, video_url |-> r.video_url,
     link_url |-> r.link_url, publisher_role |-> r.role]

\* lines 326-328 and 336: uploadFile is called and awaited
CallUpload(p, r, which) ==
    /\ Suspend(p, [r EXCEPT !.pc = which, !.uploads = @ + 1,
                            !.res = IF HasCredentials(config) THEN Pending ELSE Null])
    /\ UNCHANGED <<localData, now>>

\* A slip that writes the slot whether or not there are credentials
CallSave_AlsoLocal(p, r) ==
    LET r1 == [r EXCEPT !.item = newItem(r, now), !.pc = "save", !.saves = @ + 1]
        written == saveNewsLocal(localData, r1.item)
    IN  /\ now' = now + 1
        /\ Suspend(p, [r1 EXCEPT !.res = IF HasCredentials(config) THEN Pending ELSE Bool(TRUE)])
        /\ localData' = Json(written.items)

\* lines 447-460 and 73-105: the item is built and saveNews is called and
\* awaited; without credentials saveNews has written the slot when it returns
CallSave(p, r) ==
    LET r1 == [r EXCEPT !.item = newItem(r, now), !.pc = "save", !.saves = @ + 1]
        written == saveNewsLocal(localData, r1.item)
    IN  /\ now' = now + 1
        /\ IF HasCredentials(config)
           THEN /\ Suspend(p, [r1 EXCEPT !.res = Pending])
                /\ UNCHANGED localData
           ELSE IF written.st = "threw"
           THEN /\ Suspend(p, [r1 EXCEPT !.res = Threw])
                /\ UNCHANGED localData
           ELSE /\ Suspend(p, [r1 EXCEPT !.res = Bool(TRUE)])
                /\ localData' = Json(written.items)

\* lines 441-460: what follows the image upload
AfterImage(p, r) ==
    IF r.vidFile /= "" THEN CallUpload(p, r, "video") ELSE CallSave(p, r)

\* lines 424-445: the button is disabled, the files are taken from the form
\* as it is now, and the first call is made
Publishing(p, r) ==
    LET r1 == [r EXCEPT !.imgFile = form.image, !.vidFile = form.video]
    IN  /\ btnDisabled' = TRUE
        /\ IF r1.imgFile /= "" THEN CallUpload(p, r1, "image") ELSE AfterImage(p, r1)

\* lines 373-393: is the draft complete
Validate(title, content, pin) ==
    IF title = <<>> \/ content = <<>> THEN "Please fill in title and content."
    ELSE IF pin = <<>> THEN "Please enter a Publish PIN."
    ELSE ""

\* A slip that saves the item before the limit is checked
CallGetNews_AfterSaving(p, r) ==
    /\ Suspend(p, [r EXCEPT !.pc = "quota", !.saves = @ + 1,
                            !.res = IF HasCredentials(config) THEN Pending
                                    ELSE getNewsLocal(localData)])
    /\ localData' = IF HasCredentials(config) THEN localData
                    ELSE Json(Append(getNewsLocal(localData).items, newItem(r, now)))
    /\ UNCHANGED <<now, btnDisabled>>

\* lines 413-415: getNews is called and awaited; without credentials it has
\* read the slot when it returns
CallGetNews(p, r) ==
    /\ Suspend(p, [r EXCEPT !.pc = "quota",
                            !.res = IF HasCredentials(config) THEN Pending
                                    ELSE getNewsLocal(localData)])
    /\ UNCHANGED <<localData, now, btnDisabled>>

\* lines 359-399: the click, up to the await of hashPassword; until the limit
\* check is over, "full" notes whether the store in effect held 5 user-role
\* items at the click
Click(p, sub) ==
    /\ clicks < MaxClicks
    /\ ~btnDisabled
    /\ proc[p].pc = "idle"
    /\ \A q \in Procs : q < p => proc[q].pc /= "idle"
    /\ clicks' = clicks + 1
    /\ form' = sub
    /\ LET r == [Idle EXCEPT !.sub = sub, !.title = trim(sub.title),
                             !.content = trim(sub.content),
                             !.link_url = NormalizeLink(trim(sub.link)),
                             !.pin = trim(sub.pin),
                             !.full = UserPosts(InEffect) = USER_LIMIT]
           complaint == Validate(r.title, r.content, r.pin)
       IN  IF complaint /= ""
           THEN Return(p, r, "Rejected", complaint)
           ELSE Suspend(p, [r EXCEPT !.pc = "hash"])
    /\ UNCHANGED <<config, localData, remote, nextId, now, btnDisabled>>

\* lines 399-415: the digest is there; the role is resolved
Hashed(p) ==
    /\ proc[p].pc = "hash"
    /\ LET role == RoleOf(hashPassword(proc[p].pin))
           r == [proc[p] EXCEPT !.role = role, !.authorName = AuthorOf(role),
                                !.full = role = "user" /\ @]
       IN  IF role = ""
           THEN /\ Return(p, proc[p], "Rejected", "Incorrect PIN. Please try again.")
                /\ UNCHANGED <<localData, now, btnDisabled>>
           ELSE IF role = "user"
           THEN CallGetNews(p, r)
           ELSE Publishing(p, r)
    /\ UNCHANGED <<config, remote, nextId, form, clicks>>

\* lines 415-422: getNews has settled; the limit check
Quota(p) ==
    /\ proc[p].pc = "quota"
    /\ \E responseOk \in IF proc[p].res = Pending THEN BOOLEAN ELSE {TRUE} :
          LET existingNews == IF proc[p].res = Pending
                              THEN getNewsRemote(remote, localData, responseOk)
                              ELSE proc[p].res
              userPosts == IF existingNews.st = "threw" THEN 0
                           ELSE UserPosts(existingNews.items)
              r == [proc[p] EXCEPT !.res = NoCall, !.userPosts = userPosts, !.full = FALSE]
          IN  IF existingNews.st /= "threw" /\ LimitReached(userPosts)
              THEN /\ Return(p, r, "Rejected", "User limit reached!")
                   /\ UNCHANGED <<localData, now, btnDisabled>>
              ELSE Publishing(p, r)
    /\ UNCHANGED <<config, remote, nextId, form, clicks>>

\* The public url uploadFile returns for a stored file: it keeps the extension
PublicUrl(file) ==
    IF file = ImageFile THEN "https://sb.example/storage/v1/object/public/news-images/1.png"
    ELSE "https://sb.example/storage/v1/object/public/news-images/2.mp4"

\* A slip that returns the url whether or not the upload succeeded
uploadFile_IgnoresStatus(file, responseOk) == PublicUrl(file)

\* lines 347-356: what uploadFile returns, "" standing for null
uploadFile(file, responseOk) == IF responseOk THEN PublicUrl(file) ELSE ""

\* lines 437-438: the image upload has settled
ImageUploaded(p) ==
    /\ proc[p].pc = "image"
    /\ \E responseOk \in IF proc[p].res = Pending THEN BOOLEAN ELSE {FALSE} :
          AfterImage(p, [proc[p] EXCEPT !.res = NoCall,
                             !.image_url = uploadFile(proc[p].imgFile, responseOk)])
    /\ UNCHANGED <<config, remote, nextId, form, btnDisabled, clicks>>

\* lines 443-444: the video upload has settled
VideoUploaded(p) ==
    /\ proc[p].pc = "video"
    /\ \E responseOk \in IF proc[p].res = Pending THEN BOOLEAN ELSE {FALSE} :
          CallSave(p, [proc[p] EXCEPT !.res = NoCall,
                           !.video_url = uploadFile(proc[p].vidFile, responseOk)])
    /\ UNCHANGED <<config, remote, nextId, form, btnDisabled, clicks>>

\* A slip that clears the form whatever saveNews returned
FormAfterSave_ClearsAnyway(success, fields) == EmptyForm

\* lines 462-470: the form fields once saveNews has returned
FormAfterSave(success, fields) == IF success THEN EmptyForm ELSE fields

\* lines 460-476 and 107-117: saveNews has settled
Saved(p) ==
    /\ proc[p].pc = "save"
    /\ \E responseOk \in IF proc[p].res = Pending THEN BOOLEAN ELSE {TRUE} :
          LET inserted == proc[p].res = Pending /\ responseOk
              success == proc[p].res = Bool(TRUE) \/ inserted
              r == [proc[p] EXCEPT !.res = NoCall]
          IN  /\ IF inserted
                 THEN /\ remote' = Append(remote, ItemToRow(r.item, nextId))
                      /\ nextId' = nextId + 1
                 ELSE UNCHANGED <<remote, nextId>>
              /\ IF proc[p].res = Threw
                 THEN /\ Throw(p, r)
                      /\ UNCHANGED <<form, btnDisabled>>
                 ELSE IF success
                 THEN /\ form' = FormAfterSave(TRUE, form)
                      /\ Suspend(p, [r EXCEPT !.pc = "render",
                                              !.res = IF HasCredentials(config) THEN Pending
                                                      ELSE getNewsLocal(localData)])
                      /\ UNCHANGED btnDisabled
                 ELSE /\ btnDisabled' = FALSE
                      /\ Return(p, r, "PersistFailed", "Could not save news.")
                      /\ form' = FormAfterSave(FALSE, form)
    /\ UNCHANGED <<config, localData, now, clicks>>

\* lines 471-476 and 303-324: renderNewsAdmin has settled
Rendered(p) ==
    /\ proc[p].pc = "render"
    /\ \E responseOk \in IF proc[p].res = Pending THEN BOOLEAN ELSE {TRUE} :
          LET newsItems == IF proc[p].res = Pending
                           THEN getNewsRemote(remote, localData, responseOk)
                           ELSE proc[p].res
              r == [proc[p] EXCEPT !.res = NoCall]
          IN  IF newsItems.st = "threw"
              THEN /\ Throw(p, r)
                   /\ UNCHANGED btnDisabled
              ELSE /\ Return(p, r, "Published", "News item published!")
                   /\ btnDisabled' = FALSE
    /\ UNCHANGED <<config, localData, remote, nextId, now, form, clicks>>

-----------------------------------------------------------------------------
(* The other handlers *)

\* What a getNews call returned and, when the step before it was a getNews call
\* too, what that one returned
Listed(responseOk, res) ==
    [op |-> "getNews", responseOk |-> responseOk, res |-> res,
     prev |-> IF last.op = "getNews" THEN last.res ELSE NoCall,
     prevOk |-> IF last.op = "getNews" THEN last.responseOk ELSE TRUE]

\* A slip that drops the local copy once the fallback has served it
List_FallbackConsumes ==
    /\ \E responseOk \in IF HasCredentials(config) THEN BOOLEAN ELSE {TRUE} :
          /\ last' = Listed(responseOk, getNews(config, localData, remote, responseOk))
          /\ localData' = IF HasCredentials(config) /\ ~responseOk THEN NoData ELSE localData
    /\ UNCHANGED <<config, remote, nextId, now, form, btnDisabled, proc, clicks>>

\* getNews, as renderNewsPublic and renderNewsAdmin call it
List ==
    /\ \E responseOk \in IF HasCredentials(config) THEN BOOLEAN ELSE {TRUE} :
          last' = Listed(responseOk, getNews(config, localData, remote, responseOk))
    /\ UNCHANGED <<config, localData, remote, nextId, now, form, btnDisabled, proc, clicks>>

Deleted(id, outcome) == [op |-> "deleteNews", id |-> id, outcome |-> outcome]

\* deleteNews
DeleteNews(id, confirmed) ==
    /\ IF ~confirmed
       THEN /\ last' = Deleted(NoId, "cancelled")
            /\ UNCHANGED <<localData, remote>>
       ELSE IF ~HasCredentials(config)
       THEN LET kept == deleteNewsLocal(localData, id)
            IN  IF kept.st = "threw"
                THEN /\ last' = Deleted(id, "threw")
                     /\ UNCHANGED <<localData, remote>>
                ELSE /\ last' = Deleted(id, "done")
                     /\ localData' = Json(kept.items)
                     /\ UNCHANGED remote
       ELSE \E responseOk \in BOOLEAN :
               IF responseOk
               THEN /\ last' = Deleted(id, "done")
                    /\ remote' = deleteRowsEq(remote, id)
                    /\ UNCHANGED localData
               ELSE /\ last' = Deleted(id, "alert")
                    /\ UNCHANGED <<localData, remote>>
    /\ UNCHANGED <<config, nextId, now, form, btnDisabled, proc, clicks>>

Cleared(pin, outcome) == [op |-> "handleClearAllNews", pin |-> pin, outcome |-> outcome]

\* handleClearAllNews
ClearAllNews(confirmed, pin) ==
    /\ IF ~confirmed
       THEN /\ last' = Cleared(<<>>, "cancelled")
            /\ UNCHANGED remote
       ELSE IF pin = <<>>
       THEN /\ last' = Cleared(pin, "no pin")
            /\ UNCHANGED remote
       ELSE IF ~MayClearAll(hashPassword(pin))
       THEN /\ last' = Cleared(pin, "denied")
            /\ UNCHANGED remote
       ELSE IF ~HasCredentials(config)
       THEN /\ last' = Cleared(pin, "returned")
            /\ UNCHANGED remote
       ELSE \E responseOk \in BOOLEAN :
               IF responseOk
               THEN /\ last' = Cleared(pin, "deleted")
                    /\ remote' = deleteRowsNeq0(remote)
               ELSE /\ last' = Cleared(pin, "alert")
                    /\ UNCHANGED remote
    /\ UNCHANGED <<config, localData, nextId, now, form, btnDisabled, proc, clicks>>

-----------------------------------------------------------------------------

Next ==
    \/ \E p \in Procs, sub \in Submissions : Click(p, sub)
    \/ \E p \in Procs : Hashed(p)
    \/ \E p \in Procs : Quota(p)
    \/ \E p \in Procs : ImageUploaded(p)
    \/ \E p \in Procs : VideoUploaded(p)
    \/ \E p \in Procs : Saved(p)
    \/ \E p \in Procs : Rendered(p)
    \/ List
    \/ \E id \in DeleteIds, confirmed \in BOOLEAN : DeleteNews(id, confirmed)
    \/ \E confirmed \in BOOLEAN, pin \in ClearPins : ClearAllNews(confirmed, pin)

Spec == Init /\ [][Next]_vars

\* What the three configuration sources may hold: each url and key absent,
\* empty or set; no public configuration object or one; no settings text, text
\* that does not parse, or the JSON text of an object
Configs ==
    [SB_URL : {Undefined, "", "https://a.example"},
     SB_KEY : {Undefined, "", "key-a"},
     PUBLIC_CONFIG : {NoPublicConfig}
                     \cup [present : {TRUE},
                           URL : {Undefined, "", "https://b.example"},
                           ANON_KEY : {Undefined, "", "key-b"}],
     settings : {NoSettings, [kind |-> "malformed", url |-> Undefined, key |-> Undefined]}
                \cup [kind : {"json"},
                      url : {Undefined, "", "https://c.example"},
                      key : {Undefined, "", "key-c"}]]

InitResolve ==
    \E cfg \in Configs : Start([config |-> cfg, localData |-> NoData, remote |-> <<>>])

\* getSupabaseCredentials, as every store operation calls it first
Resolve ==
    /\ last' = [op |-> "resolve", creds |-> getSupabaseCredentials(config)]
    /\ UNCHANGED <<config, localData, remote, nextId, now, form, btnDisabled, proc, clicks>>

NextResolve == Resolve

\* getSupabaseCredentials over every configuration
SpecResolve == InitResolve /\ [][NextResolve]_vars

\* An awaited call of an invocation of handleAddNews settles
Settles(p) ==
    \/ Hashed(p) \/ Quota(p) \/ ImageUploaded(p) \/ VideoUploaded(p)
    \/ Saved(p) \/ Rendered(p)

\* Every awaited call eventually responds or fails
Fairness == \A p \in Procs : WF_vars(Settles(p))

\* The page loaded over a local slot that does not parse
SpecMalformed == InitMalformed /\ [][Next]_vars /\ Fairness

-----------------------------------------------------------------------------
(* What the claims speak of *)

\* The last step was a step of handleAddNews
Publish == last.op = "handleAddNews"

\* The last step was handleAddNews returning with this outcome
Ended(outcome) == Publish /\ last.outcome = outcome

\* The sequence the slot of the local store holds
LocalSequence == IF localData.kind = "json" THEN localData.items ELSE <<>>

\* The digest of a PIN is neither reference digest
NoRole(pin) ==
    /\ hashPassword(pin) /= ADMIN_PASSWORD_HASH
    /\ hashPassword(pin) /= USER_PASSWORD_HASH

-----------------------------------------------------------------------------
(* C1 *)

\* C1: a publish that ends Rejected has called neither saveNews nor
\* uploadFile, and no step of handleAddNews up to and including the
\* rejection (the click, the role check, the limit check) changes the remote
\* table or the local slot.
C1_RejectedTouchesNothing ==
    [][ (Publish' /\ (last'.outcome = "Rejected"
                        \/ proc'[last'.p].pc \in {"hash", "quota"}))
        => /\ remote' = remote
           /\ localData' = localData
           /\ last'.outcome = "Rejected" => last'.saves = 0 /\ last'.uploads = 0
           /\ proc'[last'.p].saves = 0 /\ proc'[last'.p].uploads = 0 ]_vars

\* A user-role publish with a valid draft was rejected at the limit
C1_Witness ==
    /\ Ended("Rejected")
    /\ last.alert = "User limit reached!"
    /\ last.userPosts = USER_LIMIT

-----------------------------------------------------------------------------
(* C2 *)

\* What the store in effect held when the getNews of the limit check read it:
\* the slot at the call without credentials, the table at the response with
Held(p) ==
    IF proc[p].res = Pending THEN MapRows(remote)
    ELSE IF proc[p].res.st = "items" THEN proc[p].res.items ELSE <<>>

\* C2: when the store held 5 user-role items as a user-role publish was
\* started and holds 5 as its limit check reads it, the publish is rejected
\* with the limit message for 5 of 5 and adds nothing to either store, with
\* and without credentials and also when the list request fails.
C2_LimitEnforced ==
    [][ \A p \in Procs :
          (/\ proc[p].pc = "quota" /\ Publish' /\ last'.p = p
           /\ proc[p].full
           /\ UserPosts(Held(p)) = USER_LIMIT)
          => /\ last'.outcome = "Rejected"
             /\ last'.alert = "User limit reached!"
             /\ last'.userPosts = USER_LIMIT
             /\ remote' = remote
             /\ localData' = localData ]_vars

-----------------------------------------------------------------------------
(* C3 *)

\* C3, as claimed: a publish whose PIN has the digest of neither role ends
\* with the incorrect-PIN message, whatever the draft.
C3_AlwaysAuthRejection ==
    (Publish /\ last.outcome /= "" /\ NoRole(trim(last.sub.pin)))
    => last.alert = "Incorrect PIN. Please try again."

\* C3, amended: a publish whose PIN has the digest of neither role always
\* ends Rejected and never gets past the role check; the message is the
\* incorrect-PIN one when title, content and PIN are all non-empty after
\* trimming, the fill-in one when title or content is empty, and the
\* enter-a-PIN one when only the PIN is.
C3_NoRoleIsRejected ==
    /\ \A p \in Procs :
          proc[p].pc \notin {"idle", "hash"} => ~NoRole(trim(proc[p].sub.pin))
    /\ (Publish /\ last.outcome /= "" /\ NoRole(trim(last.sub.pin)))
       => /\ last.outcome = "Rejected"
          /\ last.alert =
                IF trim(last.sub.title) = <<>> \/ trim(last.sub.content) = <<>>
                THEN "Please fill in title and content."
                ELSE IF trim(last.sub.pin) = <<>>
                THEN "Please enter a Publish PIN."
                ELSE "Incorrect PIN. Please try again."

\* A valid draft with a wrong PIN got the incorrect-PIN message
C3_Witness ==
    /\ Ended("Rejected")
    /\ NoRole(trim(last.sub.pin))
    /\ trim(last.sub.title) /= <<>> /\ trim(last.sub.content) /= <<>>
    /\ last.alert = "Incorrect PIN. Please try again."

-----------------------------------------------------------------------------
(* C4 *)

\* C4: with credentials, a getNews whose request fails returns the sequence
\* the local slot holds (empty when nothing is stored) and does not throw.
C4_FailedListFallsBack ==
    (last.op = "getNews" /\ HasCredentials(config) /\ ~last.responseOk)
    => /\ last.res.st = "items"
       /\ last.res.items = LocalSequence

\* A failed list returned a non-empty local sequence that differs from the table
C4_Witness ==
    /\ last.op = "getNews" /\ HasCredentials(config) /\ ~last.responseOk
    /\ last.res.st = "items"
    /\ last.res.items /= <<>>
    /\ Len(remote) > Len(last.res.items)

-----------------------------------------------------------------------------
(* C5 *)

\* C5: with credentials, no step of handleAddNews changes the local slot,
\* and a saveNews whose write did not reach the table makes the publish end
\* PersistFailed (saveNews returned false).
C5_RemoteSaveNeverWritesLocal ==
    [][ (Publish' /\ HasCredentials(config))
        => /\ localData' = localData
           /\ (proc[last'.p].pc = "save" /\ remote' = remote)
              => last'.outcome = "PersistFailed" ]_vars

\* A remote save failed while the local slot held items
C5_Witness ==
    /\ Ended("PersistFailed")
    /\ HasCredentials(config)
    /\ LocalSequence /= <<>>

-----------------------------------------------------------------------------
(* C6 *)

\* C6: after a clear that the user confirmed and the admin PIN authorized,
\* with credentials the delete over the whole table has been issued (and,
\* where it succeeded, the table is empty), and without credentials the local
\* slot holds no items, so that getNews returns the empty sequence.
C6_ClearEmptiesStore ==
    (/\ last.op = "handleClearAllNews"
     /\ last.outcome /= "cancelled"
     /\ hashPassword(last.pin) = ADMIN_PASSWORD_HASH)
    => IF HasCredentials(config)
       THEN /\ last.outcome \in {"deleted", "alert"}
            /\ last.outcome = "deleted" => remote = <<>>
       ELSE getNewsLocal(localData) = Items(<<>>)

-----------------------------------------------------------------------------
(* C7 *)

\* C7: a clear whose PIN does not have the admin digest (the empty PIN, the
\* user PIN, a padded admin PIN) issues no delete and changes neither the
\* remote table nor the local slot.
C7_NonAdminClearsNothing ==
    [][ (last'.op = "handleClearAllNews" /\ hashPassword(last'.pin) /= ADMIN_PASSWORD_HASH)
        => /\ last'.outcome \in {"cancelled", "no pin", "denied"}
           /\ remote' = remote
           /\ localData' = localData ]_vars

\* The user PIN was refused while the table held a row published in this run
C7_Witness ==
    /\ last.op = "handleClearAllNews"
    /\ last.pin = UserPin
    /\ last.outcome = "denied"
    /\ \E i \in 1..Len(remote) : remote[i].news_date >= 5

-----------------------------------------------------------------------------
(* C8 *)

\* C8: without credentials, once a publish has ended Published, getNews
\* returns an item with the title and content that were submitted (trimmed),
\* the link with its scheme, and an id that is not empty.
C8_LocalRoundTrip ==
    (Ended("Published") /\ ~HasCredentials(config))
    => /\ getNewsLocal(localData).st = "items"
       /\ \E i \in 1..Len(getNewsLocal(localData).items) :
             LET item == getNewsLocal(localData).items[i]
             IN  /\ item.title = trim(last.sub.title)
                 /\ item.content = trim(last.sub.content)
                 /\ item.link_url = NormalizeLink(trim(last.sub.link))
                 /\ toString(item.id).ok
                 /\ toString(item.id).s /= <<>>

-----------------------------------------------------------------------------
(* C9 *)

\* C9: without credentials, a confirmed deleteNews on a slot that a publish
\* of this run has written completes without an exception and leaves in the
\* slot exactly the items whose id, as text, differs from the given id, in
\* their order.
C9_LocalDeleteByText ==
    [][ (/\ last'.op = "deleteNews"
         /\ last'.outcome /= "cancelled"
         /\ ~HasCredentials(config)
         /\ now > 5)
        => /\ last'.outcome = "done"
           /\ LET Keep(item) == Interpolate(item.id) /= Interpolate(last'.id)
              IN  localData' = Json(SelectSeq(LocalSequence, Keep)) ]_vars

-----------------------------------------------------------------------------
(* C10 *)

\* C10: whatever getNews returns is ordered newest first: no item is
\* followed by one with a later date.
C10_NewestFirst ==
    (last.op = "getNews" /\ last.res.st = "items")
    => \A i, j \in 1..Len(last.res.items) :
          i < j => last.res.items[i].date >= last.res.items[j].date

-----------------------------------------------------------------------------
(* C11 *)

\* C11, as claimed: a getNews call that directly follows another returns
\* what that one returned, with and without credentials, whichever of the two
\* requests succeeded.
C11_ListIdempotent ==
    (last.op = "getNews" /\ last.prev /= NoCall) => last.res = last.prev

\* C11, amended: a getNews call that directly follows another returns what
\* that one returned when there are no credentials, and with credentials
\* when both requests succeeded or both failed.
C11_SameOutcomeSameList ==
    (last.op = "getNews" /\ last.prev /= NoCall /\ last.prevOk = last.responseOk)
    => last.res = last.prev

\* Two requests in a row failed and both calls returned the same non-empty
\* local sequence
C11_Witness ==
    /\ last.op = "getNews" /\ last.prev /= NoCall
    /\ HasCredentials(config)
    /\ ~last.responseOk /\ ~last.prevOk
    /\ last.res = last.prev
    /\ last.res.st = "items" /\ last.res.items /= <<>>

-----------------------------------------------------------------------------
(* C12 *)

\* C12: while the local slot holds text that does not parse, getNews
\* returns the empty sequence both without credentials and as the fallback of
\* a failed request, a local saveNews leaves the slot holding just the new
\* item, and a confirmed local deleteNews completes without an exception.
C12_MalformedIsEmpty ==
    [][ localData = Malformed
        => /\ (last'.op = "getNews" /\ (~HasCredentials(config) \/ ~last'.responseOk))
              => last'.res = Items(<<>>)
           /\ (Publish' /\ ~HasCredentials(config) /\ proc'[last'.p].pc = "save")
              => localData' = Json(<<proc'[last'.p].item>>)
           /\ (last'.op = "deleteNews" /\ last'.outcome /= "cancelled"
               /\ ~HasCredentials(config))
              => last'.outcome = "done" ]_vars

-----------------------------------------------------------------------------
(* C13 *)

Terminal == {"Published", "Rejected", "PersistFailed"}

\* C13: every invocation of handleAddNews that has started comes to an end,
\* given that every awaited call settles, and every end is one of Published,
\* Rejected and PersistFailed, whatever the stores hold.
C13_PublishTerminates ==
    /\ [](Publish /\ last.outcome /= "" => last.outcome \in Terminal)
    /\ \A p \in Procs : (proc[p].pc /= "idle") ~> (proc[p].pc = "idle")

-----------------------------------------------------------------------------
(* C14 *)

\* C14: the limit check and the save are not atomic, so two overlapping
\* user-role publishes over a store of 4 user-role items can both count 4 and
\* both save (the witness); but every publish adds at most one item, and only
\* after its own limit check counted fewer than 5, so that after k publishes
\* the store in effect holds at most 4 + k user-role items.
C14_RaceBoundedByPublishes ==
    /\ [](UserPosts(InEffect) <= 4 + clicks)
    /\ [][ UserPosts(InEffect)' > UserPosts(InEffect)
           => /\ Publish'
              /\ proc'[last'.p].role = "user"
              /\ proc'[last'.p].userPosts < USER_LIMIT
              /\ proc'[last'.p].saves = 1
              /\ UserPosts(InEffect)' = UserPosts(InEffect) + 1 ]_vars

\* Two invocations both counted 4 user-role items, both saved, and the store
\* holds 6
C14_Witness ==
    /\ \A p \in Procs : proc[p].pc = "render" /\ proc[p].role = "user"
                         /\ proc[p].userPosts = 4
    /\ UserPosts(InEffect) = 6

-----------------------------------------------------------------------------
(* C15 *)

\* C15: getSupabaseCredentials returns the url and key of the first of the
\* window globals, the public configuration object and the stored settings
\* that has both non-empty, and credentials that are not complete only when
\* none of the three has both; settings text that does not parse counts as no
\* settings.
C15_FirstCompleteSource ==
    last.op = "resolve"
    => LET globals == [url |-> config.SB_URL, key |-> config.SB_KEY]
           public == [url |-> config.PUBLIC_CONFIG.URL, key |-> config.PUBLIC_CONFIG.ANON_KEY]
           settings == [url |-> config.settings.url, key |-> config.settings.key]
           Complete(c) == Truthy(c.url) /\ Truthy(c.key)
       IN  IF Complete(globals) THEN last.creds = globals
           ELSE IF config.PUBLIC_CONFIG.present /\ Complete(public) THEN last.creds = public
           ELSE IF config.settings.kind = "json" /\ Complete(settings)
           THEN last.creds = settings
           ELSE ~Complete(last.creds)

-----------------------------------------------------------------------------
(* C16 *)

\* C16: whatever has been published, deleted and cleared, every row of the
\* remote table and every item of the local slot has a non-empty title and
\* content, the role admin or user, and the author of its role: "Admin" for
\* admin, "User" for user.
C16_StoredItemsWellFormed ==
    LET WellFormed(item) ==
            /\ item.title /= <<>>
            /\ item.content /= <<>>
            /\ item.publisher_role \in {"admin", "user"}
            /\ item.publisher_role = "admin" => item.author = "Admin"
            /\ item.publisher_role = "user" => item.author = "User"
    IN  /\ \A i \in 1..Len(remote) : WellFormed(remote[i])
        /\ \A i \in 1..Len(LocalSequence) : WellFormed(LocalSequence[i])

\* The store in effect holds a user-role item and an admin-role item that
\* were both published in this run
C16_Witness ==
    /\ \E i \in 1..Len(InEffect) :
          InEffect[i].date >= 5 /\ InEffect[i].publisher_role = "user"
    /\ \E i \in 1..Len(InEffect) :
          InEffect[i].date >= 5 /\ InEffect[i].publisher_role = "admin"

-----------------------------------------------------------------------------
(* C17 *)

\* C17: whatever an upload returns, handleAddNews goes on: after the image
\* upload to the video upload when a video is selected and to saveNews
\* otherwise, after the video upload to saveNews; the url of an upload is
\* the public url of the file or empty, and empty without credentials; the
\* video upload leaves the image url as it is; the item handed to saveNews
\* carries both urls; and the video upload starts only when the image upload
\* has settled or no image is selected.
C17_FailedUploadGoesOn ==
    [][ \A p \in Procs :
          /\ (proc[p].pc = "image" /\ proc'[p] /= proc[p])
             => /\ proc'[p].pc = IF proc[p].vidFile /= "" THEN "video" ELSE "save"
                /\ proc'[p].image_url \in {"", PublicUrl(proc[p].imgFile)}
                /\ ~HasCredentials(config) => proc'[p].image_url = ""
          /\ (proc[p].pc = "video" /\ proc'[p] /= proc[p])
             => /\ proc'[p].pc = "save"
                /\ proc'[p].image_url = proc[p].image_url
                /\ proc'[p].video_url \in {"", PublicUrl(proc[p].vidFile)}
                /\ ~HasCredentials(config) => proc'[p].video_url = ""
          /\ (proc'[p].pc = "save" /\ proc[p].pc /= "save")
             => /\ proc'[p].item.image_url = proc'[p].image_url
                /\ proc'[p].item.video_url = proc'[p].video_url
          /\ (proc'[p].pc = "video" /\ proc[p].pc /= "video")
             => proc[p].pc = "image" \/ proc'[p].imgFile = "" ]_vars

\* With an image and a video selected, the video upload failed and the
\* publish went on to saveNews with the image url and no video url
C17_Witness ==
    \E p \in Procs :
        /\ proc[p].pc = "save"
        /\ proc[p].imgFile /= "" /\ proc[p].vidFile /= ""
        /\ proc[p].item.image_url = PublicUrl(proc[p].imgFile)
        /\ proc[p].item.video_url = ""

-----------------------------------------------------------------------------
(* C18 *)

\* C18: the step in which a publish ends PersistFailed leaves the form
\* fields as they are; handleAddNews changes them only in the step in which
\* saveNews returned true, and then to empty; so that the only publish of a
\* run leaves the form exactly as submitted when it ends PersistFailed and
\* empty when it ends Published.
C18_FormKeptUnlessSaved ==
    /\ [][ Publish'
           => /\ last'.outcome = "PersistFailed" => form' = form
              /\ (form' /= form /\ clicks' = clicks)
                 => /\ proc[last'.p].pc = "save"
                    /\ proc'[last'.p].pc = "render"
                    /\ form' = EmptyForm ]_vars
    /\ []((Ended("PersistFailed") /\ clicks = 1) => form = last.sub)
    /\ []((Ended("Published") /\ clicks = 1) => form = EmptyForm)

\* The only publish of the run, with an image and a video selected, ended
\* PersistFailed and the form holds what was submitted
C18_Witness ==
    /\ Ended("PersistFailed")
    /\ clicks = 1
    /\ form = last.sub
    /\ form.image /= "" /\ form.video /= ""

-----------------------------------------------------------------------------
(* C19 *)

\* An invocation of handleAddNews is past the limit check and has not ended
InFlight(p) == proc[p].pc \in {"image", "video", "save", "render"}

\* C19: while an invocation of handleAddNews is uploading, saving or
\* rendering the button is disabled, and while none is the button is
\* enabled, however the invocations interleave.
C19_ButtonTracksPublish ==
    /\ (\E p \in Procs : InFlight(p)) => btnDisabled
    /\ (\A p \in Procs : ~InFlight(p)) => ~btnDisabled

-----------------------------------------------------------------------------
(* C20 *)

\* C20: handleClearAllNews takes a PIN for the admin's exactly when
\* handleAddNews does, that is when the digest of the trimmed PIN is the
\* admin digest: a confirmed clear with such a PIN is not denied, and one
\* with any other PIN is.
C20_ClearAuthenticatesAsPublish ==
    (last.op = "handleClearAllNews" /\ last.outcome /= "cancelled")
    => (RoleOf(hashPassword(trim(last.pin))) = "admin"
        <=> last.outcome \notin {"denied", "no pin"})

=============================================================================
